---------------------------- MODULE Spec2Model ----------------------------
(***************************************************************************)
(* A model of the clause extraction backend:                               *)
(*   app/extract_clauses.py  clean_text, split_into_clauses                *)
(*   app/my_utils.py         extract_clauses_from_url (temp.pdf)           *)
(*                                                                         *)
(* Text is a sequence of characters, each character a one-character        *)
(* string (the non-breaking space U+00A0 is written NBSP).  A token is a   *)
(* sequence of characters too; a WordPiece continuation token starts with  *)
(* the two characters "#", "#".                                            *)
(***************************************************************************)
EXTENDS Naturals, Sequences, FiniteSets

VARIABLES
    text,             \* split_into_clauses: the argument
    pc,               \* split_into_clauses: "start" | "done"
    sentences,        \* split_into_clauses: local `sentences` (line 50)
    blocks,           \* split_into_clauses: local `blocks` (lines 52-62)
    combined_blocks,  \* split_into_clauses: local `combined_blocks` (lines 66-75)
    final,            \* split_into_clauses: the returned list (lines 78-109)
    origin,           \* history: final's records, each with the candidate and the token chunk it came from
    s,                \* clean_text: the argument
    cpc,              \* clean_text driver: "start" | "once" | "twice"
    once,             \* clean_text(s)
    twice,            \* clean_text(clean_text(s))
    upc,              \* extract_clauses_from_url: each call's position
    url,              \* extract_clauses_from_url: each call's argument
    response,         \* extract_clauses_from_url: each call's local `response`
    temp_pdf,         \* the file "temp.pdf" in the working directory
    doc,              \* extract_clauses_from_url: what fitz.open read for each call
    clauses           \* extract_clauses_from_url: each call's return value

vars == <<text, pc, sentences, blocks, combined_blocks, final, origin,
          s, cpc, once, twice, upc, url, response, temp_pdf, doc, clauses>>

splitVars == <<text, pc, sentences, blocks, combined_blocks, final, origin>>
cleanVars == <<s, cpc, once, twice>>
urlVars   == <<upc, url, response, temp_pdf, doc, clauses>>

-----------------------------------------------------------------------------
(* Characters *)

NBSP == "NBSP"

UpperChars == <<"A", "B", "C", "D", "E", "F", "G", "H", "I", "J", "K", "L", "M",
                "N", "O", "P", "Q", "R", "S", "T", "U", "V", "W", "X", "Y", "Z">>
LowerChars == <<"a", "b", "c", "d", "e", "f", "g", "h", "i", "j", "k", "l", "m",
                "n", "o", "p", "q", "r", "s", "t", "u", "v", "w", "x", "y", "z">>
DigitChars == <<"0", "1", "2", "3", "4", "5", "6", "7", "8", "9">>

Range(f) == {f[i] : i \in DOMAIN f}

UpperSet == Range(UpperChars)
LowerSet == Range(LowerChars)
DigitSet == Range(DigitChars)
\* str.isalnum() on one character
AlnumSet == UpperSet \cup LowerSet \cup DigitSet
\* the characters \w matches: letters, digits, underscore
WordSet == AlnumSet \cup {"_"}

\* str.lower() on one character
LowerOf == [c \in UpperSet |-> LowerChars[CHOOSE i \in 1..26 : UpperChars[i] = c]]
ToLower(c) == IF c \in UpperSet THEN LowerOf[c] ELSE c
lower(str) == [i \in 1..Len(str) |-> ToLower(str[i])]

\* str.strip() and str.split(): Python's whitespace, which holds U+00A0
IsSpace(c) == c \in {" ", "\t", "\n", "\r", NBSP}
\* the mutant of ReSpace: \s under re.ASCII, which leaves U+00A0 out
ReSpaceAscii(c) == c \in {" ", "\t", "\n", "\r"}
\* \s in a Python 3 str pattern: Unicode whitespace, which holds U+00A0
ReSpace(c) == c \in {" ", "\t", "\n", "\r", NBSP}
IsDigit(c) == c \in DigitSet
IsWordChar(c) == c \in WordSet

-----------------------------------------------------------------------------
(* Python string helpers.  A string is scanned through the ascending list  *)
(* of the positions that satisfy a test, not character by character.       *)

Min(a, b) == IF a < b THEN a ELSE b

Indices(str) == [i \in 1..Len(str) |-> i]

\* str.strip()
strip(str) ==
    LET Solid(i) == ~IsSpace(str[i])
        solid == SelectSeq(Indices(str), Solid)
    IN  IF solid = <<>> THEN <<>> ELSE SubSeq(str, solid[1], solid[Len(solid)])

\* str.replace(old, '') for a one-character old
Remove(str, old) ==
    LET Kept(c) == c # old
    IN  SelectSeq(str, Kept)

\* str.replace(old, new) for one-character old and new
Replace(str, old, new) == [i \in 1..Len(str) |-> IF str[i] = old THEN new ELSE str[i]]

\* whether `pat` occurs in `str` at position i
OccursAt(str, pat, i) ==
    /\ i >= 1
    /\ i + Len(pat) - 1 <= Len(str)
    /\ \A k \in 1..Len(pat) : str[i + k - 1] = pat[k]

\* pat in str
Contains(str, pat) == \E i \in 1..Len(str) : OccursAt(str, pat, i)

\* the end of the run, starting at i, of characters that are not whitespace
SolidEnd(str, i) ==
    CHOOSE j \in i..Len(str) :
        /\ j = Len(str) \/ IsSpace(str[j + 1])
        /\ \A k \in i..j : ~IsSpace(str[k])

\* str.split(): the maximal runs of non-whitespace
split(str) ==
    LET Starts(i) == ~IsSpace(str[i]) /\ (i = 1 \/ IsSpace(str[i - 1]))
        starts == SelectSeq(Indices(str), Starts)
    IN  [k \in 1..Len(starts) |-> SubSeq(str, starts[k], SolidEnd(str, starts[k]))]

\* str.isupper(): at least one cased character and no lower-case one
isupper(str) ==
    /\ \E i \in 1..Len(str) : str[i] \in UpperSet
    /\ \A i \in 1..Len(str) : str[i] \notin LowerSet

-----------------------------------------------------------------------------
(* clean_text *)

\* re.sub(r'\s+', ' ', text): the first character of a whitespace run becomes
\* a space and the rest of the run goes
SubWsRuns(str) ==
    LET Kept(i) == ~ReSpace(str[i]) \/ i = 1 \/ ~ReSpace(str[i - 1])
        kept == SelectSeq(Indices(str), Kept)
    IN  [k \in 1..Len(kept) |-> IF ReSpace(str[kept[k]]) THEN " " ELSE str[kept[k]]]

\* lines 43-44
clean_text(str) == strip(Replace(SubWsRuns(str), NBSP, " "))

-----------------------------------------------------------------------------
(* The tokenizer (line 15): AutoTokenizer for all-MiniLM-L6-v2, a          *)
(* lower-casing BERT WordPiece tokenizer.  tokenize() cleans and           *)
(* lower-cases the text, splits it at whitespace, makes every punctuation  *)
(* character a word of its own, and cuts each word into vocabulary pieces, *)
(* longest match first, the pieces after the first carrying the prefix     *)
(* "##".  The vocabulary here is every alphanumeric string of at most      *)
(* PieceLen characters, as a first piece and as a continuation piece, and  *)
(* every punctuation character.  (The tokenizer's [UNK] for a word of more *)
(* than 100 characters is beyond the texts considered here.)               *)

\* the longest vocabulary entry, in characters
PieceLen == 16

\* the token limit, which stands for the 512 of lines 55 and 96-98: scaled down to
\* keep the texts short
MaxTokens == 4

\* the shortest clause kept, in characters
MinLen == 25

\* BERT's punctuation: every character that is neither alphanumeric nor whitespace
IsPunct(c) == ~IsSpace(c) /\ c \notin AlnumSet

\* the characters of BERT's words: neither whitespace nor punctuation
IsWordPart(c) == c \in AlnumSet

\* the end of the word that starts at i
WordEnd(str, i) ==
    CHOOSE j \in i..Len(str) :
        /\ j = Len(str) \/ ~IsWordPart(str[j + 1])
        /\ \A k \in i..j : IsWordPart(str[k])

\* WordPiece on the word str[a..e], greedy longest match first: a piece starts
\* every PieceLen characters
PieceStarts(a, e) == {a + k * PieceLen : k \in 0..((e - a) \div PieceLen)}

\* the last position of the token that starts at i
PieceEnd(str, i) ==
    IF IsPunct(str[i]) THEN i ELSE Min(i + PieceLen - 1, WordEnd(str, i))

\* tokenizer.tokenize(text): BertPreTokenizer makes a word of every run of
\* alphanumeric characters and of every punctuation character, WordPiece cuts
\* the words; the pieces come in text order, lower-cased, and a piece that does
\* not start its word carries the prefix "##"
tokenize(str) ==
    LET puncts == {i \in 1..Len(str) : IsPunct(str[i])}
        words == {i \in 1..Len(str) :
                     IsWordPart(str[i]) /\ (i = 1 \/ ~IsWordPart(str[i - 1]))}
        pieces == puncts \cup UNION {PieceStarts(a, WordEnd(str, a)) : a \in words}
        Starts(i) == i \in pieces
        starts == SelectSeq(Indices(str), Starts)
    IN  [k \in 1..Len(starts) |->
            LET at == starts[k]
                cont == at \notin puncts \cup words
            IN  (IF cont THEN <<"#", "#">> ELSE <<>>)
                    \o lower(SubSeq(str, at, PieceEnd(str, at)))]

IsContinuation(token) == Len(token) >= 2 /\ token[1] = "#" /\ token[2] = "#"

\* the WordPiece decoder on the i-th token of a list: a continuation token that
\* is not the first loses its prefix, any other token that is not the first gets
\* a space in front, and the clean-up then joins " ." to "."
DecodeToken(token, i) ==
    IF i = 1 THEN token
    ELSE IF IsContinuation(token) THEN SubSeq(token, 3, Len(token))
    ELSE IF token = <<".">> THEN token
    ELSE <<" ">> \o token

RECURSIVE DecodeFrom(_, _, _)
DecodeFrom(tokens, i, acc) ==
    IF i > Len(tokens) THEN acc
    ELSE DecodeFrom(tokens, i + 1, acc \o DecodeToken(tokens[i], i))

\* tokenizer.convert_tokens_to_string(tokens)
convert_tokens_to_string(tokens) == DecodeFrom(tokens, 1, <<>>)

-----------------------------------------------------------------------------
(* split_into_clauses *)

SectionWord == <<"S", "e", "c", "t", "i", "o", "n">>
PageWord == <<"p", "a", "g", "e">>
TocPhrase == <<"t", "a", "b", "l", "e", " ", "o", "f", " ", "c", "o", "n", "t", "e", "n", "t", "s">>
ClausePrefix == <<"c", "l", "a", "u", "s", "e", "_">>

\* line 47: text.replace('\r', '').replace('\xa0', ' ').strip()
Prepare(str) == strip(Replace(Remove(str, "\r"), NBSP, " "))

\* the end of the run of blanks that starts at i
BlanksEnd(str, i) ==
    CHOOSE j \in i..Len(str) :
        /\ j = Len(str) \/ str[j + 1] # " "
        /\ \A k \in i..j : str[k] = " "

\* line 50: re.split(r'(?<=[.!?]) +', text): a separator is a run of blanks
\* that follows ".", "!" or "?"
ReSplit(str) ==
    LET Separator(i) == str[i] = " " /\ i > 1 /\ str[i - 1] \in {".", "!", "?"}
        seps == SelectSeq(Indices(str), Separator)
    IN  [k \in 1..(Len(seps) + 1) |->
            SubSeq(str,
                   IF k = 1 THEN 1 ELSE BlanksEnd(str, seps[k - 1]) + 1,
                   IF k = Len(seps) + 1 THEN Len(str) ELSE seps[k] - 1)]

\* the mutant of Fits: a limit that lets one token too many through
FitsOffByOne(candidate) == Len(tokenize(candidate)) <= MaxTokens + 1

\* line 55: len(tokenizer.tokenize(candidate)) <= 512
Fits(candidate) == Len(tokenize(candidate)) <= MaxTokens

\* lines 51-62: greedy accumulation of the sentences into blocks
RECURSIVE Accumulate(_, _, _, _)
Accumulate(sents, i, buffer, blks) ==
    LET flushed == IF buffer # <<>> THEN Append(blks, strip(buffer)) ELSE blks
    IN  IF i > Len(sents) THEN flushed
        ELSE LET sentence == sents[i]
                 candidate == IF buffer # <<>> THEN buffer \o <<" ">> \o sentence
                                               ELSE sentence
             IN  IF Fits(candidate)
                 THEN Accumulate(sents, i + 1, candidate, blks)
                 ELSE Accumulate(sents, i + 1, sentence, flushed)

\* line 65, first alternative: Section\s+\d+
MatchSection(b) ==
    /\ OccursAt(b, SectionWord, 1)
    /\ \E j \in (Len(SectionWord) + 2)..Len(b) :
          /\ IsDigit(b[j])
          /\ \A k \in (Len(SectionWord) + 1)..(j - 1) : ReSpace(b[k])

\* line 65, second alternative: [0-9.]{1,5}\s+[\w ]{3,}
MatchNumbered(b) ==
    \E n \in 1..5 : \E m \in 1..Len(b) :
        /\ n + m + 3 <= Len(b)
        /\ \A k \in 1..n : IsDigit(b[k]) \/ b[k] = "."
        /\ \A k \in (n + 1)..(n + m) : ReSpace(b[k])
        /\ \A k \in (n + m + 1)..(n + m + 3) : IsWordChar(b[k]) \/ b[k] = " "

\* line 70: header_pattern.match(block.strip())
IsHeader(block) == MatchSection(strip(block)) \/ MatchNumbered(strip(block))

\* lines 66-75: a header block is held back and put in front of the next block
RECURSIVE FoldHeaders(_, _, _, _)
FoldHeaders(blks, i, current_header, combined) ==
    IF i > Len(blks) THEN combined
    ELSE IF IsHeader(blks[i])
         THEN FoldHeaders(blks, i + 1, strip(blks[i]), combined)
         ELSE LET full_block == IF current_header # <<>>
                                THEN current_header \o <<"\n">> \o strip(blks[i])
                                ELSE strip(blks[i])
              IN  FoldHeaders(blks, i + 1, <<>>, Append(combined, full_block))

\* line 87: re.match(r'^page\s*\d+', block_clean.lower())
MatchPage(lowered) ==
    /\ OccursAt(lowered, PageWord, 1)
    /\ \E j \in (Len(PageWord) + 1)..Len(lowered) :
          /\ IsDigit(lowered[j])
          /\ \A k \in (Len(PageWord) + 1)..(j - 1) : ReSpace(lowered[k])

\* line 89: re.match(r'^\d{1,3}$', block_clean); $ also matches before a final newline
MatchNumber(b) ==
    LET body == IF b # <<>> /\ b[Len(b)] = "\n" THEN SubSeq(b, 1, Len(b) - 1) ELSE b
    IN  /\ Len(body) \in 1..3
        /\ \A k \in 1..Len(body) : IsDigit(body[k])

\* the mutant of IsNoise: the upper-case heading test left out
IsNoiseNoHeading(block_clean) ==
    \/ Len(block_clean) < MinLen
    \/ MatchPage(lower(block_clean))
    \/ MatchNumber(block_clean)
    \/ Contains(lower(block_clean), TocPhrase)

\* lines 83-92: the tests that make the loop skip a candidate
IsNoise(block_clean) ==
    IF Len(block_clean) < MinLen THEN TRUE
    ELSE IF isupper(block_clean) /\ Len(split(block_clean)) < 5 THEN TRUE
    ELSE IF MatchPage(lower(block_clean)) THEN TRUE
    ELSE IF MatchNumber(block_clean) THEN TRUE
    ELSE IF Contains(lower(block_clean), TocPhrase) THEN TRUE
    ELSE FALSE

RECURSIVE Decimal(_)
Decimal(n) ==
    IF n < 10 THEN <<DigitChars[n + 1]>>
    ELSE Decimal(n \div 10) \o <<DigitChars[(n % 10) + 1]>>

\* the mutant of NextId: the id taken from the candidate's position
NextIdByCandidate(fin, i) == ClausePrefix \o Decimal(i)

\* lines 101 and 106: f"clause_{len(final)+1}"
NextId(fin, i) == ClausePrefix \o Decimal(Len(fin) + 1)

\* the mutant of ChunkEnd: a chunk one token short of the limit's stride
ChunkEndShort(tokens, i) == Min(i + MaxTokens - 2, Len(tokens))

\* line 98: the last index of tokens[i:i + 512] (1-based)
ChunkEnd(tokens, i) == Min(i + MaxTokens - 1, Len(tokens))

\* lines 97-102: one record per chunk of 512 tokens; src is candidate i's index.
\* A record's fields src and chunk are history, not part of the returned dict.
RECURSIVE ChunkLoop(_, _, _, _)
ChunkLoop(tokens, i, fin, src) ==
    IF i > Len(tokens) THEN fin
    ELSE LET piece == SubSeq(tokens, i, ChunkEnd(tokens, i))
             chunk == convert_tokens_to_string(piece)
         IN  ChunkLoop(tokens, i + MaxTokens,
                       Append(fin, [clause |-> clean_text(chunk), id |-> NextId(fin, src),
                                    src |-> src, chunk |-> piece]),
                       src)

\* lines 78-107: the filter and the final split
RECURSIVE FilterLoop(_, _, _)
FilterLoop(combined, i, fin) ==
    IF i > Len(combined) THEN fin
    ELSE LET block_clean == clean_text(combined[i])
         IN  IF IsNoise(block_clean) THEN FilterLoop(combined, i + 1, fin)
             ELSE LET tokens == tokenize(block_clean)
                  IN  IF Len(tokens) > MaxTokens
                      THEN FilterLoop(combined, i + 1, ChunkLoop(tokens, 1, fin, i))
                      ELSE FilterLoop(combined, i + 1,
                                      Append(fin, [clause |-> block_clean,
                                                   id |-> NextId(fin, i),
                                                   src |-> i, chunk |-> tokens]))

-----------------------------------------------------------------------------
(* The texts split_into_clauses is applied to: up to MaxFrags fragments,   *)
(* each two joined by one of the separators.                               *)

FragHeader == <<"S", "e", "c", "t", "i", "o", "n", " ", "2">>
FragTitle == <<"2", " ", "S", "c", "o", "p", "e", ".">>
FragShort == <<"s", "e", "e", " ", "a", "b", "o", "v", "e", ".">>
FragBody ==
    <<"h", "o", "s", "p", "i", "t", "a", "l", "i", "s", "a", "t", "i", "o", "n", " ", "i", "s", " ", "c", "o", "v", "e", "r", "e", "d", ".">>
FragLong ==
    <<"h", "o", "s", "p", "i", "t", "a", "l", "i", "s", "a", "t", "i", "o", "n", " ", "r", "e", "i", "m", "b", "u", "r", "s", "e", "d">>
FragRunOn ==
    <<"c", "l", "a", "i", "m", "s", " ", "f", "o", "r", " ", "a", "n", "y", " ", "m", "i", "s", "r", "e", "p", "r", "e", "s", "e", "n", "t", "a", "t", "i", "o", "n", "s", " ", "a", "r", "e", " ", "v", "o", "i", "d", ".">>
FragPage == <<"P", "a", "g", "e", " ", "1">>
FragToc == <<"T", "O", "C">>
FragNum == <<"4", "2">>
FragHeading ==
    <<"E", "X", "C", "L", "U", "D", "E", "D", " ", "B", "E", "N", "E", "F", "I", "T", "S", " ", "L", "I", "S", "T">>
FragContents ==
    <<"T", "a", "b", "l", "e", " ", "o", "f", " ", "C", "o", "n", "t", "e", "n", "t", "s">>

Fragments ==
    {FragHeader, FragTitle, FragShort, FragBody, FragLong, FragRunOn, FragPage, FragToc,
     FragNum, FragHeading, FragContents}

Separators == {<<>>, <<" ">>, <<"\n">>, <<"\r">>, <<NBSP>>}

MaxFrags == 2

RECURSIVE TextsOf(_)
TextsOf(n) ==
    IF n = 0 THEN {<<>>}
    ELSE IF n = 1 THEN Fragments
    ELSE {t \o sep \o f : t \in TextsOf(n - 1), sep \in Separators, f \in Fragments}

Texts == UNION {TextsOf(n) : n \in 0..MaxFrags}

IdleSplit ==
    /\ text = <<>> /\ pc = "idle" /\ sentences = <<>> /\ blocks = <<>>
    /\ combined_blocks = <<>> /\ final = <<>> /\ origin = <<>>

IdleClean == s = <<>> /\ cpc = "idle" /\ once = <<>> /\ twice = <<>>

InitSplit ==
    /\ text \in Texts
    /\ pc = "start"
    /\ sentences = <<>> /\ blocks = <<>> /\ combined_blocks = <<>>
    /\ final = <<>> /\ origin = <<>>

\* split_into_clauses(text), lines 46-109
SplitIntoClauses ==
    /\ pc = "start"
    /\ sentences' = ReSplit(Prepare(text))
    /\ blocks' = Accumulate(sentences', 1, <<>>, <<>>)
    /\ combined_blocks' = FoldHeaders(blocks', 1, <<>>, <<>>)
    /\ origin' = FilterLoop(combined_blocks', 1, <<>>)
    /\ final' = [k \in 1..Len(origin') |-> [clause |-> origin'[k].clause, id |-> origin'[k].id]]
    /\ pc' = "done"
    /\ UNCHANGED <<text, cleanVars, urlVars>>

-----------------------------------------------------------------------------
(* clean_text applied once and twice to every string of CleanInputs *)

CleanAlphabet == {"a", " ", "\t", "\n", NBSP}

MaxCleanLen == 5

CleanInputs == UNION {[1..n -> CleanAlphabet] : n \in 0..MaxCleanLen}

InitClean == s \in CleanInputs /\ cpc = "start" /\ once = <<>> /\ twice = <<>>

CleanOnce ==
    /\ cpc = "start"
    /\ once' = clean_text(s)
    /\ cpc' = "once"
    /\ UNCHANGED <<s, twice, splitVars, urlVars>>

CleanTwice ==
    /\ cpc = "once"
    /\ twice' = clean_text(once)
    /\ cpc' = "twice"
    /\ UNCHANGED <<s, once, splitVars, urlVars>>

NextClean == CleanOnce \/ CleanTwice

-----------------------------------------------------------------------------
(* my_utils.extract_clauses_from_url, called twice at the same time.  A    *)
(* document is the sequence of its text lines; a line is the URL it was    *)
(* served from, its number and its stripped length.  The documents hold no *)
(* markup, so that BeautifulSoup's get_text returns the lines as they are. *)

Calls == {1, 2}

Urls == {"u1", "u2", "u3"}

\* line 29: len(line.strip()) > 50
MinClauseLen == 50

Line(u, k, n) == [url |-> u, line |-> k, len |-> n]

\* requests.get(url).content, as the text lines the PDF holds
Content(u) ==
    CASE u = "u1" -> <<Line(u, 1, 60), Line(u, 2, 10)>>
      [] u = "u2" -> <<Line(u, 1, 51), Line(u, 2, 50), Line(u, 3, 80)>>
      [] OTHER    -> <<Line(u, 1, 75)>>

\* line 29: the lines longer than 50 characters, in order
RECURSIVE LongLines(_, _, _)
LongLines(lines, i, acc) ==
    IF i > Len(lines) THEN acc
    ELSE LongLines(lines, i + 1,
                   IF lines[i].len > MinClauseLen THEN Append(acc, lines[i]) ELSE acc)

IdleUrl ==
    /\ upc = [p \in Calls |-> "idle"]
    /\ url = [p \in Calls |-> "u1"]
    /\ response = [p \in Calls |-> <<>>]
    /\ temp_pdf = <<>>
    /\ doc = [p \in Calls |-> <<>>]
    /\ clauses = [p \in Calls |-> <<>>]

InitUrl ==
    /\ upc = [p \in Calls |-> "get"]
    /\ url \in [Calls -> Urls]
    /\ response = [p \in Calls |-> <<>>]
    /\ temp_pdf = <<>>
    /\ doc = [p \in Calls |-> <<>>]
    /\ clauses = [p \in Calls |-> <<>>]

\* line 18: response = requests.get(url)
Get(p) ==
    /\ upc[p] = "get"
    /\ response' = [response EXCEPT ![p] = Content(url[p])]
    /\ upc' = [upc EXCEPT ![p] = "open"]
    /\ UNCHANGED <<url, temp_pdf, doc, clauses, splitVars, cleanVars>>

\* line 19: open("temp.pdf", "wb") creates the file or truncates it
OpenForWriting(p) ==
    /\ upc[p] = "open"
    /\ temp_pdf' = <<>>
    /\ upc' = [upc EXCEPT ![p] = "write"]
    /\ UNCHANGED <<url, response, doc, clauses, splitVars, cleanVars>>

\* line 20: f.write(response.content), flushed when the with block closes f:
\* the bytes go to offset 0 of the file and what lay beyond them stays
WriteFile(p) ==
    /\ upc[p] = "write"
    /\ temp_pdf' = response[p] \o SubSeq(temp_pdf, Len(response[p]) + 1, Len(temp_pdf))
    /\ upc' = [upc EXCEPT ![p] = "read"]
    /\ UNCHANGED <<url, response, doc, clauses, splitVars, cleanVars>>

\* lines 22-25: fitz.open("temp.pdf") and the pages' text; an empty file raises
ReadFile(p) ==
    /\ upc[p] = "read"
    /\ doc' = [doc EXCEPT ![p] = temp_pdf]
    /\ upc' = [upc EXCEPT ![p] = IF temp_pdf = <<>> THEN "raised" ELSE "clean"]
    /\ UNCHANGED <<url, response, temp_pdf, clauses, splitVars, cleanVars>>

\* lines 27-30: the lines of more than 50 characters are returned
Return(p) ==
    /\ upc[p] = "clean"
    /\ clauses' = [clauses EXCEPT ![p] = LongLines(doc[p], 1, <<>>)]
    /\ upc' = [upc EXCEPT ![p] = "done"]
    /\ UNCHANGED <<url, response, temp_pdf, doc, splitVars, cleanVars>>

NextUrl == \E p \in Calls : Get(p) \/ OpenForWriting(p) \/ WriteFile(p) \/ ReadFile(p) \/ Return(p)

Init == InitSplit /\ IdleClean /\ IdleUrl

Next == SplitIntoClauses

\* split_into_clauses applied to every text of Texts
Spec == Init /\ [][Next]_vars

\* clean_text applied to every string of CleanInputs
InitCleanText == IdleSplit /\ InitClean /\ IdleUrl

SpecClean == InitCleanText /\ [][NextClean]_vars

InitConcurrent == IdleSplit /\ IdleClean /\ InitUrl

\* two concurrent calls of my_utils.extract_clauses_from_url
SpecUrl == InitConcurrent /\ [][NextUrl]_vars

-----------------------------------------------------------------------------
(* The claims *)

Done == pc = "done"

TokenCount(str) == Len(tokenize(str))

\* ceil(n / d)
CeilDiv(n, d) == (n + d - 1) \div d

\* the candidate record k of the output came from, normalised as line 80 does
CandidateOf(k) == clean_text(combined_blocks[origin[k].src])

\* C1: every returned record's normalised clause text has at most MaxTokens
\* tokens, the records made from the chunks of an oversized candidate included.
C1_TokenBudget ==
    Done => \A k \in 1..Len(final) : TokenCount(clean_text(final[k].clause)) <= MaxTokens

\* C2: every returned record's clause text has at least 25 characters, the
\* chunks of an oversized candidate (the last, short one too) included.
C2_MinimumLength ==
    Done => \A k \in 1..Len(final) : Len(final[k].clause) >= MinLen

\* the number a string of decimal digits denotes
RECURSIVE ParseDecimal(_, _, _)
ParseDecimal(digits, i, acc) ==
    IF i > Len(digits) THEN acc
    ELSE ParseDecimal(digits, i + 1,
                      10 * acc + (CHOOSE d \in 0..9 : DigitChars[d + 1] = digits[i]))

IsClauseId(id, n) ==
    /\ Len(id) > Len(ClausePrefix)
    /\ OccursAt(id, ClausePrefix, 1)
    /\ \A i \in (Len(ClausePrefix) + 1)..Len(id) : IsDigit(id[i])
    /\ id[Len(ClausePrefix) + 1] # "0"
    /\ ParseDecimal(SubSeq(id, Len(ClausePrefix) + 1, Len(id)), 1, 0) = n

\* C3: the i-th record returned has the id "clause_<i>": the ids count up from 1
\* in output order without gap or repeat, however many candidates were
\* discarded and however many records the chunks of one candidate gave.
C3_SequentialIds ==
    Done => \A k \in 1..Len(final) : IsClauseId(final[k].id, k)

\* C3's case: a candidate was discarded before the first record, and two
\* records are chunks of one candidate
C3_Witness ==
    /\ Done
    /\ Len(final) >= 2
    /\ origin[1].src > 1
    /\ origin[1].src = origin[2].src

\* a header line, a newline and a body of at least 25 characters, the whole
\* within the token budget
IsHeaderThenBody(str, body) ==
    /\ str = FragHeader \o <<"\n">> \o body
    /\ MatchSection(FragHeader)
    /\ Len(body) >= MinLen
    /\ TokenCount(str) <= MaxTokens

\* C4: for a header line, a newline and a body sentence of at least 25
\* characters within the token budget, exactly one record is returned, and its
\* text is the header text followed by the body.
C4_HeaderFolded ==
    Done => \A body \in Fragments :
                IsHeaderThenBody(text, body) =>
                    /\ Len(final) = 1
                    /\ final[1].clause = FragHeader \o <<" ">> \o body

RECURSIVE ConcatChunks(_, _)
ConcatChunks(records, k) ==
    IF k > Len(records) THEN <<>> ELSE records[k].chunk \o ConcatChunks(records, k + 1)

\* one candidate, of one sentence, that is not noise and has more than
\* MaxTokens tokens
IsOneOversizedCandidate ==
    /\ Len(sentences) = 1
    /\ Len(combined_blocks) = 1
    /\ LET c == clean_text(combined_blocks[1])
       IN  /\ Len(c) >= MinLen
           /\ ~(isupper(c) /\ Len(split(c)) < 5)
           /\ ~MatchPage(lower(c))
           /\ ~Contains(lower(c), TocPhrase)
           /\ TokenCount(c) > MaxTokens

IsHeadingOfThreeWords(str) ==
    /\ isupper(str)
    /\ Len(split(str)) = 3
    /\ \A i \in 1..Len(str) : IsSpace(str[i]) \/ str[i] \in UpperSet \cup DigitSet

\* the five reasons for which a candidate is noise
IsNoiseAsClaimed(c) ==
    \/ Len(c) < 25
    \/ isupper(c) /\ Len(split(c)) < 5
    \/ MatchPage(lower(c))
    \/ Len(c) \in 1..3 /\ \A i \in 1..Len(c) : IsDigit(c[i])
    \/ Contains(lower(c), TocPhrase)

\* C6: an input that is only a page marker, "TOC", a number of 1 to 3 digits or
\* an all-upper-case heading of three words gives no record; and no record
\* comes from a candidate whose normalised text is shorter than 25 characters,
\* is all upper-case with fewer than 5 words, starts with "page" and digits,
\* is 1 to 3 digits, or contains "table of contents".
C6_NoiseExcluded ==
    Done =>
        /\ (text \in {FragPage, FragToc, FragNum} \/ IsHeadingOfThreeWords(text))
               => final = <<>>
        /\ \A k \in 1..Len(origin) : ~IsNoiseAsClaimed(CandidateOf(k))

\* C6's case: a heading of three words and 25 characters or more, which only
\* the upper-case test discards
C6_Witness ==
    /\ Done
    /\ IsHeadingOfThreeWords(text)
    /\ Len(clean_text(text)) >= 25
    /\ combined_blocks # <<>>
    /\ final = <<>>

AllSentencesFit == \A j \in 1..Len(sentences) : TokenCount(sentences[j]) <= MaxTokens

\* C7 as stated: for k sentences, each within the token budget, the number B of
\* blocks has ceil(total_tokens / MaxTokens) <= B <= k, total_tokens being the
\* token count of the whole input.
C7_PackingBoundOfInput ==
    (Done /\ AllSentencesFit) =>
        /\ CeilDiv(TokenCount(text), MaxTokens) <= Len(blocks)
        /\ Len(blocks) <= Len(sentences)

\* C7 as amended: the same bound, total_tokens being the token count of the
\* input once line 47 has taken its carriage returns out.
C7_PackingBound ==
    (Done /\ AllSentencesFit) =>
        /\ CeilDiv(TokenCount(Prepare(text)), MaxTokens) <= Len(blocks)
        /\ Len(blocks) <= Len(sentences)

\* C7's case: two sentences or more that fit, packed into fewer blocks than
\* sentences, as few as the bound allows
C7_Witness ==
    /\ Done
    /\ AllSentencesFit
    /\ Len(sentences) >= 2
    /\ Len(blocks) < Len(sentences)
    /\ Len(blocks) = CeilDiv(TokenCount(Prepare(text)), MaxTokens)
    /\ TokenCount(Prepare(text)) > 0

NoDoubleSpace(str) == \A i \in 1..(Len(str) - 1) : ~(str[i] = " " /\ str[i + 1] = " ")

IsNormal(str) ==
    /\ NoDoubleSpace(str)
    /\ \A i \in 1..Len(str) : str[i] \notin {NBSP, "\t", "\n", "\r"}
    /\ str # <<>> => (str[1] # " " /\ str[Len(str)] # " ")

\* C8: clean_text(clean_text(s)) = clean_text(s), and clean_text(s) has no run
\* of two spaces, no non-breaking space and no whitespace at either end.
C8_CleanTextIdempotent ==
    /\ cpc \in {"once", "twice"} => IsNormal(once)
    /\ cpc = "twice" => twice = once

\* C8's case: a string with a non-breaking space next to a space, which
\* clean_text changed and did not empty
C8_Witness ==
    /\ cpc = "twice"
    /\ \E i \in 1..(Len(s) - 1) : s[i] = " " /\ s[i + 1] = NBSP
    /\ once # s
    /\ Len(once) >= 3

\* C9 as stated: at most one block has more than MaxTokens tokens, and that
\* block is the last one.
C9_OnlyLastBlockOversized ==
    Done => \A i \in 1..Len(blocks) :
                TokenCount(blocks[i]) > MaxTokens => i = Len(blocks)

\* C9 as amended: a block has more than MaxTokens tokens exactly when it is one
\* sentence of the input that has more than MaxTokens tokens by itself: every
\* oversized block is such a sentence, and every such sentence is a block.
C9_OversizedBlockIsOneSentence ==
    Done =>
        /\ \A i \in 1..Len(blocks) :
               TokenCount(blocks[i]) > MaxTokens =>
                   \E j \in 1..Len(sentences) :
                       /\ blocks[i] = strip(sentences[j])
                       /\ TokenCount(sentences[j]) > MaxTokens
        /\ \A j \in 1..Len(sentences) :
               TokenCount(sentences[j]) > MaxTokens =>
                   \E i \in 1..Len(blocks) : blocks[i] = strip(sentences[j])

\* C9's case: two oversized blocks, the first of them not the last block
C9_Witness ==
    /\ Done
    /\ Len(blocks) >= 2
    /\ TokenCount(blocks[1]) > MaxTokens
    /\ TokenCount(blocks[Len(blocks)]) > MaxTokens

\* C10: two concurrent calls for different URLs do not interfere: each call
\* that returns, returns the long lines of its own URL's content.
C10_NoInterference ==
    \A p \in Calls :
        (upc[p] = "done" /\ \E q \in Calls : url[q] # url[p]) =>
            /\ \A k \in 1..Len(clauses[p]) : clauses[p][k].url = url[p]
            /\ clauses[p] = LongLines(Content(url[p]), 1, <<>>)

=============================================================================
